---- MODULE Spec2Model ----
(***************************************************************************)
(* Streaming relay of yurikrupnik/copilot-extension-example1.              *)
(*                                                                         *)
(* The repository holds three revisions of the same server, each a         *)
(* complete program with one POST / handler:                               *)
(*   "fis"      src/src/fis.ts                                             *)
(*   "part_000" src/unnamed/part_000                                       *)
(*   "part_001" src/unnamed/part_001                                       *)
(* A behaviour runs one revision (rev), chosen in Init.                    *)
(*                                                                         *)
(* Text is a sequence of tokens.  A token stands for a fixed run of        *)
(* characters (its length is TokLen); chunk boundaries fall between        *)
(* tokens.                                                                 *)
(***************************************************************************)
EXTENDS Integers, Sequences, FiniteSets, TLC

\* ---------------------------------------------------------------- bounds
NumRequests == 2
MaxRequests == 2
MaxLines == 2
MaxKeepAlives == 1
RaceRequests == 3

\* ------------------------------------------------------------ revisions
Revisions == {"fis", "part_000", "part_001"}

\* --------------------------------------------------------------- tokens
NL == "\n"
WS == " "
DATA == "data: "
EVENT == "event: values"
PING == "ping"
GARBAGE == "oops"
LB == "{\"messages\":["
RB == "]}"
OBJC == "{\"content\":\"Direct\"}"
PAD == "xxxx...(4096)"
AiHello == "{\"type\":\"ai\",\"content\":\"Hello\",\"tool_calls\":[]}"
AiWorld == "{\"type\":\"ai\",\"content\":\"World\"}"
AiTool == "{\"type\":\"ai\",\"content\":\"Calling\",\"tool_calls\":[{}]}"
AiEmpty == "{\"type\":\"ai\",\"content\":\"\",\"tool_calls\":[]}"
AiBlank == "{\"type\":\"ai\",\"content\":\" \"}"
AiList == "{\"type\":\"ai\",\"content\":[{\"type\":\"text\"}]}"
Human == "{\"type\":\"human\",\"content\":\"Question\"}"

EntryTokens == {AiHello, AiWorld, AiTool, AiEmpty, AiBlank, AiList, Human}

\* the decoded message entry a token stands for; tool_calls is the list of
\* tool-call directives, or <<Undefined>> standing for an absent field;
\* ListContent stands for a content that is a list of blocks, not a string
Undefined == "<undefined>"
ListContent == "<list>"
EntryOf(tok) ==
  CASE tok = AiHello -> [type |-> "ai", content |-> "Hello", tool_calls |-> <<>>]
    [] tok = AiWorld -> [type |-> "ai", content |-> "World", tool_calls |-> <<Undefined>>]
    [] tok = AiTool  -> [type |-> "ai", content |-> "Calling", tool_calls |-> <<"call">>]
    [] tok = AiEmpty -> [type |-> "ai", content |-> "", tool_calls |-> <<>>]
    [] tok = AiBlank -> [type |-> "ai", content |-> " ", tool_calls |-> <<Undefined>>]
    [] tok = AiList  -> [type |-> "ai", content |-> ListContent, tool_calls |-> <<Undefined>>]
    [] OTHER         -> [type |-> "human", content |-> "Question", tool_calls |-> <<Undefined>>]

\* number of characters of a token / of a text (String.length)
GuardLen == 4096
TokLen(tok) ==
  CASE tok = NL -> 1
    [] tok = WS -> 1
    [] tok = DATA -> 6
    [] tok = PAD -> GuardLen
    [] OTHER -> 13

RECURSIVE TextLen(_)
TextLen(text) ==
  IF text = <<>> THEN 0 ELSE TokLen(Head(text)) + TextLen(Tail(text))

\* ------------------------------------------------------ string operations
RECURSIVE Flatten(_)
Flatten(ss) == IF ss = <<>> THEN <<>> ELSE Head(ss) \o Flatten(Tail(ss))

\* String.prototype.split('\n'): the segments between newlines; the last
\* segment is the text after the last newline (possibly empty)
RECURSIVE SplitLines(_)
SplitLines(text) ==
  IF \A i \in 1..Len(text) : text[i] # NL
    THEN <<text>>
    ELSE LET k == CHOOSE i \in 1..Len(text) :
                    text[i] = NL /\ \A j \in 1..(i-1) : text[j] # NL
         IN <<SubSeq(text, 1, k-1)>> \o SplitLines(SubSeq(text, k+1, Len(text)))

Front(s) == SubSeq(s, 1, Len(s) - 1)
Last(s) == s[Len(s)]

RECURSIVE TrimStart(_)
TrimStart(text) ==
  IF text # <<>> /\ Head(text) = WS THEN TrimStart(Tail(text)) ELSE text

RECURSIVE TrimEnd(_)
TrimEnd(text) ==
  IF text # <<>> /\ Last(text) = WS THEN TrimEnd(Front(text)) ELSE text

\* String.prototype.trim.  The token "data: " ends in a blank: when it is
\* the last token left, trim removes that blank and the text no longer
\* starts with the six characters "data: ".
Trim(text) == TrimEnd(TrimStart(text))
StartsWithData(trimmed) == Len(trimmed) > 1 /\ trimmed[1] = DATA
StartsWithBrace(text) == text # <<>> /\ Head(text) \in {LB, OBJC}

\* --------------------------------------------------------------- JSON.parse

\* JSON.parse of a payload: ok = FALSE stands for the SyntaxError thrown
JSONParse(payload) ==
  LET p == Trim(payload) IN
  IF p = <<OBJC>>
    THEN [ok |-> TRUE, hasMessages |-> FALSE, messages |-> <<>>, content |-> "Direct"]
  ELSE IF Len(p) >= 2 /\ p[1] = LB /\ p[Len(p)] = RB
          /\ \A i \in 2..(Len(p)-1) : p[i] \in EntryTokens \cup {WS}
    THEN [ok |-> TRUE, hasMessages |-> TRUE,
          messages |-> [i \in 1..Len(SelectSeq(SubSeq(p, 2, Len(p)-1), LAMBDA t : t # WS))
                          |-> EntryOf(SelectSeq(SubSeq(p, 2, Len(p)-1), LAMBDA t : t # WS)[i])],
          content |-> Undefined]
  ELSE [ok |-> FALSE, hasMessages |-> FALSE, messages |-> <<>>, content |-> Undefined]

\* ------------------------------------------------------- message extraction
\* a faulty filter that leaves the tool_calls test out
NoToolCallsUnchecked(msg) == TRUE

\* !msg.tool_calls || msg.tool_calls.length === 0
NoToolCalls(msg) == msg.tool_calls = <<Undefined>> \/ Len(msg.tool_calls) = 0

\* String.prototype.trim of a content string
ContentTrim(c) == IF c = " " THEN "" ELSE c

\* typeof content === 'string'
IsString(c) == c # ListContent

\* part_001 / part_000: the condition under which an entry is forwarded
MsgAccepted(msg) ==
  /\ msg.type = "ai"
  /\ msg.content # ""
  /\ IsString(msg.content)
  /\ ContentTrim(msg.content) # ""
  /\ NoToolCalls(msg)

\* fis.ts: no typeof test and no trim test on the content
MsgAcceptedFis(msg) ==
  /\ msg.type = "ai"
  /\ msg.content # ""
  /\ NoToolCalls(msg)

RECURSIVE MessageFragments(_, _)
MessageFragments(rv, msgs) ==
  IF msgs = <<>> THEN <<>>
  ELSE (IF (IF rv = "fis" THEN MsgAcceptedFis(Head(msgs)) ELSE MsgAccepted(Head(msgs)))
          THEN <<Head(msgs).content>> ELSE <<>>)
       \o MessageFragments(rv, Tail(msgs))

\* part_001 only: a top-level content string on the record
ContentFragment(eventObj) ==
  IF eventObj.content # Undefined /\ eventObj.content # ""
    THEN <<eventObj.content>> ELSE <<>>

\* the texts written for one decoded record (nothing when JSON.parse threw)
RecordFragments(rv, eventObj) ==
  IF ~eventObj.ok THEN <<>>
  ELSE MessageFragments(rv, eventObj.messages)
       \o (IF rv = "part_001" THEN ContentFragment(eventObj) ELSE <<>>)

\* ---------------------------------------------------- one line of the stream
LineFragments001(line) ==
  LET trimmedLine == Trim(line) IN
  IF trimmedLine = <<>> THEN <<>>
  ELSE IF ~StartsWithData(trimmedLine) THEN <<>>
  ELSE LET data == Trim(Tail(trimmedLine)) IN
       IF data = <<>> \/ data = <<PING>> THEN <<>>
       ELSE IF ~StartsWithBrace(data) THEN <<>>
       ELSE RecordFragments("part_001", JSONParse(data))

LineFragments000(line) ==
  LET l == Trim(line) IN
  IF StartsWithData(l) /\ StartsWithBrace(Tail(l))
    THEN RecordFragments("part_000", JSONParse(Tail(l)))
    ELSE <<>>

\* fis.ts: a line starting "event: values" never starts "data: ", so that
\* branch always continues; the fallback branch also reads the length of the
\* text left in the buffer after the split
LineFragmentsFis(line, rest) ==
  LET l == Trim(line) IN
  IF l # <<>> /\ Head(l) = EVENT
    THEN (IF ~StartsWithData(l) THEN <<>>
          ELSE RecordFragments("fis", JSONParse(Tail(l))))
  ELSE IF StartsWithData(l) /\ StartsWithBrace(Tail(l)) /\ TextLen(rest) < GuardLen
    THEN RecordFragments("fis", JSONParse(Tail(l)))
  ELSE <<>>

LineFragments(rv, line, rest) ==
  CASE rv = "part_001" -> LineFragments001(line)
    [] rv = "part_000" -> LineFragments000(line)
    [] OTHER -> LineFragmentsFis(line, rest)

\* ----------------------------------------------- one chunk of the stream
\* a faulty loop that leaves the lines it has processed in the buffer
ProcessChunkKeepsLines(rv, buf, chunk) ==
  LET lines == SplitLines(buf \o chunk)
      rest == Last(lines)
      complete == Front(lines)
  IN [buffer |-> buf \o chunk,
      out |-> Flatten([i \in 1..Len(complete) |-> LineFragments(rv, complete[i], rest)])]

\* a faulty loop that writes the fragments of a chunk last first
ProcessChunkReversed(rv, buf, chunk) ==
  LET lines == SplitLines(buf \o chunk)
      rest == Last(lines)
      complete == Front(lines)
      out == Flatten([i \in 1..Len(complete) |-> LineFragments(rv, complete[i], rest)])
  IN [buffer |-> rest, out |-> [i \in 1..Len(out) |-> out[Len(out) + 1 - i]]]

\* buffer += chunk; lines = buffer.split('\n'); buffer = lines.pop();
\* for (line of lines) ...: the new buffer and the texts written, in order
ProcessChunk(rv, buf, chunk) ==
  LET lines == SplitLines(buf \o chunk)
      rest == Last(lines)
      complete == Front(lines)
  IN [buffer |-> rest,
      out |-> Flatten([i \in 1..Len(complete) |-> LineFragments(rv, complete[i], rest)])]

\* ------------------------------------------------------------ environment
Requests == 1..NumRequests
Logins == {"alice", "bob"}
Handles == {"t1", "t2"}

\* the values a field of a creation response may have, and the responses
FieldValues == {Undefined, ""} \cup Handles
ThreadData == [thread_id : FieldValues, id : FieldValues, uuid : FieldValues]

\* the responses that carry thread_id alone, no field, or every field empty
PlainThreadData ==
  { [thread_id |-> v,
     id |-> IF v = "" THEN "" ELSE Undefined,
     uuid |-> IF v = "" THEN "" ELSE Undefined] : v \in FieldValues }

\* the lines an agent response is made of
LineCatalogue ==
  { <<DATA, LB, AiHello, RB>>,
    <<DATA, LB, AiTool, AiWorld, RB>>,
    <<DATA, LB, AiEmpty, RB>>,
    <<DATA, PING>>,
    <<DATA, LB, AiHello>>,
    <<GARBAGE>>,
    <<DATA, OBJC>>,
    <<WS, DATA, LB, Human, AiHello, RB, WS>>,
    <<DATA, GARBAGE>>,
    <<EVENT>>,
    <<PAD>>,
    <<DATA, LB, AiBlank, AiList, RB>>,
    <<>> }

\* the text a response may end with after its last newline
TailCatalogue == { <<>>, <<PAD>>, <<DATA, LB, AiWorld, RB>> }

\* the response bodies of at most n complete lines
Bodies(n) ==
  { Flatten([i \in 1..Len(ls) |-> Append(ls[i], NL)]) \o t :
      ls \in UNION { [1..k -> LineCatalogue] : k \in 0..n }, t \in TailCatalogue }

\* the bodies an agent sends: none but the empty one when it is silent
Silent == 0 - 1
AgentBodies(n) == IF n = Silent THEN {<<>>} ELSE Bodies(n)

\* ------------------------------------------------------------------ events
\* createAckEvent / createTextEvent / createErrorsEvent / createDoneEvent,
\* and the calls made on the upstream services, as entries of one log
AckEvent == [ch |-> "sink", kind |-> "ack", arg |-> "", code |-> ""]
DoneEvent == [ch |-> "sink", kind |-> "done", arg |-> "", code |-> ""]
TextEvent(text) == [ch |-> "sink", kind |-> "text", arg |-> text, code |-> ""]
ErrorsEvent(message, code) ==
  [ch |-> "sink", kind |-> "errors", arg |-> message, code |-> code]
Call(kind, arg) == [ch |-> "upstream", kind |-> kind, arg |-> arg, code |-> ""]

Greeting == "Hi <login>!"
KeepAlive == "Processing your request..."
Fallback == "I received your request but couldn't generate a proper response. Please try again."

RECURSIVE TextEvents(_)
TextEvents(texts) ==
  IF texts = <<>> THEN <<>> ELSE <<TextEvent(Head(texts))>> \o TextEvents(Tail(texts))

\* ------------------------------------------------------------------- state
VARIABLES
  rev,          \* the revision of the server that runs
  clients,      \* the logins that send requests
  concurrent,   \* whether a request is sent while another is in flight
  budget,       \* requests the client will still send
  agentLines,   \* the most complete lines one agent response carries
                \* (Silent: every response is empty)
  emptyBudget,  \* empty reads the agent's connections will still deliver
                \* (Unlimited: any number)
  sinkFails,    \* whether a write of the Errors event may throw
  threadShapes, \* the bodies a thread-creation response may carry
  userThreads,  \* the Map userThreads: login -> thread id, Undefined when absent
  issued,       \* history: thread ids returned by successful creation responses
  creations,    \* history: per login, the outcomes of its creation calls
  runs,         \* history: per login, the thread ids its runs were opened against
  pc,           \* per request: where its handler is suspended
  userLogin,    \* per request: user.data.login
  threadId,     \* per request: the local threadId, Undefined before the lookup
  threadData,   \* per request, history: <<threadData>> once the creation
                \* response was decoded, <<>> before
  timer,        \* per request: the setTimeout of the AbortController
  reader,       \* per request: the reader of the response body
  upstream,     \* per request: the text of the response body not yet read
  body,         \* per request, history: the whole response body
  ended,        \* per request, history: how the read loop ended
  buffer,       \* per request: the local buffer
  hasValidContent,
  consecutiveEmptyReads,
  emptyRun,     \* per request, history: the consecutive empty reads the
                \* upstream has delivered, counted up to maxEmptyReads
  keepAlives,   \* per request, history: keep-alive notices written
  log           \* per request: sink writes and upstream calls, in order

vars == <<rev, clients, concurrent, budget, agentLines, emptyBudget, sinkFails,
          threadShapes, userThreads, issued, creations, runs,
          pc, userLogin, threadId, threadData, timer, reader, upstream, body, ended, buffer,
          hasValidContent, consecutiveEmptyReads, emptyRun, keepAlives, log>>

\* what the caller has received
Sink(r) == SelectSeq(log[r], LAMBDA e : e.ch = "sink")
Calls(r) == SelectSeq(log[r], LAMBDA e : e.ch = "upstream")

maxEmptyReads == 50
Unlimited == 0 - 1

\* no request is being served
Quiet ==
  /\ rev \in Revisions
  /\ pc = [r \in Requests |-> "idle"]
  /\ userLogin = [r \in Requests |-> Undefined]
  /\ threadId = [r \in Requests |-> Undefined]
  /\ threadData = [r \in Requests |-> <<>>]
  /\ timer = [r \in Requests |-> "none"]
  /\ reader = [r \in Requests |-> "null"]
  /\ upstream = [r \in Requests |-> <<>>]
  /\ body = [r \in Requests |-> <<>>]
  /\ ended = [r \in Requests |-> "no"]
  /\ buffer = [r \in Requests |-> <<>>]
  /\ hasValidContent = [r \in Requests |-> FALSE]
  /\ consecutiveEmptyReads = [r \in Requests |-> 0]
  /\ emptyRun = [r \in Requests |-> 0]
  /\ keepAlives = [r \in Requests |-> 0]
  /\ log = [r \in Requests |-> <<>>]

\* the server has just started: userThreads = new Map()
Fresh ==
  /\ userThreads = [l \in Logins |-> Undefined]
  /\ issued = {}
  /\ creations = [l \in Logins |-> <<>>]
  /\ runs = [l \in Logins |-> <<>>]

\* the server has served one request of alice before
Warm ==
  /\ userThreads = [l \in Logins |-> IF l = "alice" THEN "t1" ELSE Undefined]
  /\ issued = {"t1"}
  /\ creations = [l \in Logins |-> IF l = "alice" THEN <<"created">> ELSE <<>>]
  /\ runs = [l \in Logins |-> IF l = "alice" THEN <<"t1">> ELSE <<>>]

\* the sink accepts every write; creation responses are plain
Plain ==
  /\ sinkFails = FALSE
  /\ threadShapes = PlainThreadData

\* sequential requests of two users, short responses
Init ==
  /\ Quiet /\ Fresh /\ Plain
  /\ clients = Logins /\ concurrent = FALSE /\ budget = MaxRequests
  /\ agentLines = 1 /\ emptyBudget = 1

\* one request of alice, responses of up to MaxLines lines
FeedInit ==
  /\ Quiet /\ Warm /\ Plain
  /\ clients = {"alice"} /\ concurrent = FALSE /\ budget = 1
  /\ agentLines = MaxLines /\ emptyBudget = 0

\* one request on a connection that may stall
StallInit ==
  /\ Quiet /\ Fresh /\ Plain
  /\ clients = {"alice"} /\ concurrent = FALSE /\ budget = 1
  /\ agentLines = 0 /\ emptyBudget = Unlimited

\* requests of alice sent while others are in flight
RaceInit ==
  /\ Quiet /\ Fresh /\ Plain
  /\ clients = {"alice"} /\ concurrent = TRUE /\ budget = RaceRequests
  /\ agentLines = Silent /\ emptyBudget = 0

\* one request whose creation response carries any of the three fields
SelectInit ==
  /\ Quiet /\ Fresh
  /\ sinkFails = FALSE /\ threadShapes = ThreadData
  /\ clients = {"alice"} /\ concurrent = FALSE /\ budget = 1
  /\ agentLines = 0 /\ emptyBudget = 1

\* one request on a connection whose sink may refuse the Errors event
SinkInit ==
  /\ Quiet /\ Fresh
  /\ sinkFails = TRUE
  /\ threadShapes = PlainThreadData
  /\ clients = {"alice"} /\ concurrent = FALSE /\ budget = 1
  /\ agentLines = 0 /\ emptyBudget = 1

env == <<rev, clients, concurrent, agentLines, sinkFails, threadShapes>>
session == <<userThreads, issued, creations, runs>>
loopVars == <<upstream, body, ended, buffer, hasValidContent,
              consecutiveEmptyReads, emptyRun, keepAlives>>

\* ------------------------------------------------------- handler fragments
\* a faulty catch block that also sends Done
CatchWritesThenDone(message) ==
  <<ErrorsEvent(message, "PROCESSING_ERROR"), DoneEvent>>

\* the catch block: one Errors event with one entry
CatchWrites(message) == <<ErrorsEvent(message, "PROCESSING_ERROR")>>

\* the finally block (part_001 only): the reader, if one was acquired, is
\* cancelled
FinallyReader(rv, rd) ==
  IF rv = "part_001" /\ rd = "held" THEN "cancelled" ELSE rd

\* after the read loop: the fallback text (part_000, part_001) and Done
FinalWrites(rv, hv) ==
  (IF rv # "fis" /\ ~hv THEN <<TextEvent(Fallback)>> ELSE <<>>) \o <<DoneEvent>>

\* !v for a string or an absent value
Falsy(v) == v = Undefined \/ v = ""

\* a faulty selection that looks at id before thread_id
SelectThreadIdIdFirst(data) ==
  IF ~Falsy(data.id) THEN data.id
  ELSE IF ~Falsy(data.thread_id) THEN data.thread_id
  ELSE data.uuid

\* threadData.thread_id || threadData.id || threadData.uuid
SelectThreadId(data) ==
  IF ~Falsy(data.thread_id) THEN data.thread_id
  ELSE IF ~Falsy(data.id) THEN data.id
  ELSE data.uuid

\* a faulty store where userThreads.set runs before the check
StoredAfterCreateUnchecked(old, id) == id

\* a faulty store that keeps an entry another request has set meanwhile
StoredAfterCreateFirstWins(old, id) == IF Falsy(id) \/ ~Falsy(old) THEN old ELSE id

\* the entry of userThreads after the creation response was handled: the
\* check of the selected id comes before userThreads.set
StoredAfterCreate(old, id) == IF Falsy(id) THEN old ELSE id

\* part_001 wraps the write of the Errors event in a try/catch of its own
CatchGuarded(rv) == rv = "part_001"

\* an exception reaches the catch block.  The Errors event is written and the
\* handler returns; or the write throws, and the exception is swallowed
\* (part_001) or leaves the callback (part_000, fis.ts)
Throw(r, message) ==
  \/ /\ log' = [log EXCEPT ![r] = @ \o CatchWrites(message)]
     /\ reader' = [reader EXCEPT ![r] = FinallyReader(rev, @)]
     /\ pc' = [pc EXCEPT ![r] = "returned"]
  \/ /\ sinkFails
     /\ log' = log
     /\ IF CatchGuarded(rev)
          THEN /\ reader' = [reader EXCEPT ![r] = FinallyReader(rev, @)]
               /\ pc' = [pc EXCEPT ![r] = "returned"]
          ELSE /\ reader' = reader
               /\ pc' = [pc EXCEPT ![r] = "escaped"]

\* the run-open request is issued (part_001 arms the abort timer first)
IssueRun(r, id) ==
  /\ log' = [log EXCEPT ![r] = Append(@, Call("POST /threads/{id}/runs/stream", id))]
  /\ timer' = [timer EXCEPT ![r] = IF rev = "part_001" THEN "armed" ELSE @]
  /\ runs' = [runs EXCEPT ![userLogin'[r]] = Append(@, id)]
  /\ pc' = [pc EXCEPT ![r] = "opening"]

\* ------------------------------------------------------------------ actions
InFlight(r) == pc[r] \notin {"idle", "responded", "rejected", "returned", "escaped"}

\* a request arrives and is served on the lowest free connection slot; a
\* sequential client waits until no other request is being served
Accepts(r) ==
  /\ pc[r] = "idle" /\ budget > 0
  /\ \A q \in Requests : q < r => pc[q] # "idle"
  /\ concurrent \/ \A q \in Requests : pc[q] = "idle"

\* app.post("/"): the token check, the signature check, then the stream
\* handler up to its first await (Ack written, GET /user issued)
MissingToken(r) ==
  /\ Accepts(r)
  /\ budget' = budget - 1
  /\ log' = [log EXCEPT ![r] =
               <<ErrorsEvent("No GitHub token provided in the request headers.",
                             "MISSING_GITHUB_TOKEN")>>]
  /\ pc' = [pc EXCEPT ![r] = "responded"]
  /\ UNCHANGED <<env, emptyBudget, session, userLogin, threadId, threadData, timer, reader, loopVars>>

NotVerified(r) ==
  /\ Accepts(r)
  /\ budget' = budget - 1
  /\ pc' = [pc EXCEPT ![r] = "rejected"]
  /\ UNCHANGED <<env, emptyBudget, session, userLogin, threadId, threadData, timer, reader, loopVars, log>>

\* a faulty start that issues the identity lookup before the Ack
StartWritesLookupFirst == <<Call("GET /user", ""), AckEvent>>

StartWrites == <<AckEvent, Call("GET /user", "")>>

StartStream(r) ==
  /\ Accepts(r)
  /\ budget' = budget - 1
  /\ log' = [log EXCEPT ![r] = StartWrites]
  /\ pc' = [pc EXCEPT ![r] = "user"]
  /\ UNCHANGED <<env, emptyBudget, session, userLogin, threadId, threadData, timer, reader, loopVars>>

\* a faulty lookup that does not consult the stored thread id
NeedsCreateAlways(id) == TRUE

\* if (!threadId)
NeedsCreate(id) == Falsy(id)

\* await octokit.request("GET /user") returns or throws; then
\* userThreads.get(userLogin) and either the creation call or the run-open call

GetUser(r) ==
  /\ pc[r] = "user"
  /\ \/ /\ Throw(r, "Bad credentials")
        /\ UNCHANGED <<userLogin, threadId, timer, session>>
     \/ \E l \in clients :
          /\ userLogin' = [userLogin EXCEPT ![r] = l]
          /\ threadId' = [threadId EXCEPT ![r] = userThreads[l]]
          /\ IF NeedsCreate(userThreads[l])
               THEN /\ log' = [log EXCEPT ![r] = Append(@, Call("POST /threads", ""))]
                    /\ pc' = [pc EXCEPT ![r] = "creating"]
                    /\ UNCHANGED <<timer, runs>>
               ELSE IssueRun(r, userThreads[l])
          /\ UNCHANGED <<userThreads, issued, creations, reader>>
  /\ UNCHANGED <<env, budget, emptyBudget, threadData, loopVars>>

\* await fetch(".../threads") returns or throws; the response is checked, the
\* thread id selected and stored, and the run-open call issued
CreateFails(r, message) ==
  /\ Throw(r, message)
  /\ creations' = [creations EXCEPT ![userLogin[r]] = Append(@, "failed")]
  /\ UNCHANGED <<issued, runs, timer, userLogin>>

CreateThread(r) ==
  /\ pc[r] = "creating"
  /\ \/ \E message \in {"fetch failed", "Failed to create thread: <errText>",
                        "Unexpected end of JSON input"} :
          /\ CreateFails(r, message)
          /\ UNCHANGED <<userThreads, threadId, threadData>>
     \/ \E data \in threadShapes :
          LET selected == SelectThreadId(data) IN
          /\ threadData' = [threadData EXCEPT ![r] = <<data>>]
          /\ threadId' = [threadId EXCEPT ![r] = selected]
          /\ userThreads' = [userThreads EXCEPT ![userLogin[r]] = StoredAfterCreate(@, selected)]
          /\ IF Falsy(selected)
            THEN CreateFails(r, "Thread creation response missing thread_id")
            ELSE /\ issued' = issued \cup {selected}
                 /\ creations' = [creations EXCEPT ![userLogin[r]] = Append(@, "created")]
                 /\ userLogin' = userLogin
                 /\ IssueRun(r, selected)
                 /\ UNCHANGED reader
  /\ UNCHANGED <<env, budget, emptyBudget, loopVars>>

\* await fetch(".../runs/stream") returns or throws; on success the reader is
\* acquired and the greeting written
OpenWrites == <<TextEvent(Greeting)>>

\* a faulty handler that leaves the abort timer running
ClearTimeoutSkipped(t) == t

\* clearTimeout(timeoutId)
ClearTimeout(t) == IF t = "armed" THEN "cleared" ELSE t

OpenRun(r) ==
  /\ pc[r] = "opening"
  /\ \/ /\ Throw(r, "fetch failed")
        /\ UNCHANGED <<timer, loopVars>>
     \/ \E message \in {"LangGraph agent error: 500 <errText>",
                        "LangGraph agent error: 200 <statusText>"} :
          /\ timer' = [timer EXCEPT ![r] = ClearTimeout(@)]
          /\ Throw(r, message)
          /\ UNCHANGED loopVars
     \/ \E b \in AgentBodies(agentLines) :
          /\ timer' = [timer EXCEPT ![r] = ClearTimeout(@)]
          /\ reader' = [reader EXCEPT ![r] = "held"]
          /\ log' = [log EXCEPT ![r] = @ \o OpenWrites]
          /\ upstream' = [upstream EXCEPT ![r] = b]
          /\ body' = [body EXCEPT ![r] = b]
          /\ pc' = [pc EXCEPT ![r] = "reading"]
          /\ UNCHANGED <<ended, buffer, hasValidContent, consecutiveEmptyReads,
                         emptyRun, keepAlives>>
  /\ UNCHANGED <<env, budget, emptyBudget, session, userLogin, threadId, threadData>>

\* part_001: setTimeout(() => controller.abort(), 300000) fires; a run-open
\* call still in flight rejects
TimerFire(r) ==
  /\ timer[r] = "armed"
  /\ timer' = [timer EXCEPT ![r] = "fired"]
  /\ IF pc[r] = "opening"
       THEN Throw(r, "This operation was aborted")
       ELSE UNCHANGED <<log, reader, pc>>
  /\ UNCHANGED <<env, budget, emptyBudget, session, userLogin, threadId, threadData, loopVars>>

\* the read loop is left: fallback, Done, finally; or the sink refuses the
\* write and the exception reaches the catch block
Finish(r, how) ==
  /\ ended' = [ended EXCEPT ![r] = how]
  /\ \/ /\ log' = [log EXCEPT ![r] = @ \o FinalWrites(rev, hasValidContent[r])]
        /\ reader' = [reader EXCEPT ![r] = FinallyReader(rev, @)]
        /\ pc' = [pc EXCEPT ![r] = "returned"]
     \/ /\ sinkFails
        /\ Throw(r, "write failed")

\* an exception leaves the read loop through the outer catch
Abort(r, how, message) ==
  /\ ended' = [ended EXCEPT ![r] = how]
  /\ Throw(r, message)

\* await reader.read() reports done
ReadDone(r) ==
  /\ pc[r] = "reading" /\ upstream[r] = <<>>
  /\ CASE rev = "part_000" ->
            Abort(r, "eof", "LangGraph stream closed before any data was sent.")
       [] OTHER -> Finish(r, "eof")
  /\ UNCHANGED <<env, budget, emptyBudget, session, userLogin, threadId, threadData, timer,
                 upstream, body, buffer, hasValidContent, consecutiveEmptyReads,
                 emptyRun, keepAlives>>

\* await reader.read() rejects
ReadError(r) ==
  /\ pc[r] = "reading"
  /\ CASE rev = "part_001" -> Finish(r, "error")
       [] OTHER -> Abort(r, "error", "terminated")
  /\ UNCHANGED <<env, budget, emptyBudget, session, userLogin, threadId, threadData, timer,
                 upstream, body, buffer, hasValidContent, consecutiveEmptyReads,
                 emptyRun, keepAlives>>

\* await reader.read() delivers a chunk of no bytes.  part_000 and fis.ts
\* append the empty text and go on; part_001 counts the read, may write a
\* keep-alive notice when the inactivity window has passed, and stops at
\* maxEmptyReads
ReadEmpty(r) ==
  /\ pc[r] = "reading" /\ emptyBudget # 0
  /\ emptyBudget' = IF emptyBudget = Unlimited THEN Unlimited ELSE emptyBudget - 1
  /\ emptyRun' = [emptyRun EXCEPT ![r] = IF @ < maxEmptyReads THEN @ + 1 ELSE @]
  /\ IF rev # "part_001"
       THEN UNCHANGED <<log, reader, pc, ended, consecutiveEmptyReads, keepAlives>>
       ELSE \E inactive \in BOOLEAN :
              /\ inactive => keepAlives[r] < MaxKeepAlives
              /\ LET count == IF inactive THEN 0 ELSE consecutiveEmptyReads[r] + 1 IN
                 /\ consecutiveEmptyReads' = [consecutiveEmptyReads EXCEPT ![r] = count]
                 /\ keepAlives' = [keepAlives EXCEPT ![r] = IF inactive THEN @ + 1 ELSE @]
                 /\ IF count >= maxEmptyReads
                      THEN /\ ~inactive
                           /\ Finish(r, "stall")
                      ELSE /\ log' = [log EXCEPT ![r] =
                                        IF inactive THEN Append(@, TextEvent(KeepAlive)) ELSE @]
                           /\ UNCHANGED <<reader, pc, ended>>
  /\ UNCHANGED <<env, budget, session, userLogin, threadId, threadData, timer, upstream, body,
                 buffer, hasValidContent>>

\* await reader.read() delivers a chunk: the next k tokens of the body
ReadChunk(r) ==
  /\ pc[r] = "reading"
  /\ \E k \in 1..Len(upstream[r]) :
       LET step == ProcessChunk(rev, buffer[r], SubSeq(upstream[r], 1, k)) IN
       /\ upstream' = [upstream EXCEPT ![r] = SubSeq(@, k + 1, Len(@))]
       /\ buffer' = [buffer EXCEPT ![r] = step.buffer]
       /\ log' = [log EXCEPT ![r] = @ \o TextEvents(step.out)]
       /\ hasValidContent' = [hasValidContent EXCEPT ![r] = @ \/ step.out # <<>>]
       /\ consecutiveEmptyReads' = [consecutiveEmptyReads EXCEPT ![r] = 0]
       /\ emptyRun' = [emptyRun EXCEPT ![r] = 0]
  /\ UNCHANGED <<env, budget, emptyBudget, session, userLogin, threadId, threadData, timer, reader,
                 pc, body, ended, keepAlives>>

\* the connection of a finished request is closed; its slot is free again
Close(r) ==
  /\ pc[r] \in {"responded", "rejected", "returned", "escaped"}
  /\ pc' = [pc EXCEPT ![r] = "idle"]
  /\ userLogin' = [userLogin EXCEPT ![r] = Undefined]
  /\ threadId' = [threadId EXCEPT ![r] = Undefined]
  /\ threadData' = [threadData EXCEPT ![r] = <<>>]
  /\ timer' = [timer EXCEPT ![r] = "none"]
  /\ reader' = [reader EXCEPT ![r] = "null"]
  /\ upstream' = [upstream EXCEPT ![r] = <<>>]
  /\ body' = [body EXCEPT ![r] = <<>>]
  /\ ended' = [ended EXCEPT ![r] = "no"]
  /\ buffer' = [buffer EXCEPT ![r] = <<>>]
  /\ hasValidContent' = [hasValidContent EXCEPT ![r] = FALSE]
  /\ consecutiveEmptyReads' = [consecutiveEmptyReads EXCEPT ![r] = 0]
  /\ emptyRun' = [emptyRun EXCEPT ![r] = 0]
  /\ keepAlives' = [keepAlives EXCEPT ![r] = 0]
  /\ log' = [log EXCEPT ![r] = <<>>]
  /\ UNCHANGED <<env, budget, emptyBudget, session>>

Next ==
  \E r \in Requests :
    \/ MissingToken(r)
    \/ NotVerified(r)
    \/ StartStream(r)
    \/ GetUser(r)
    \/ CreateThread(r)
    \/ OpenRun(r)
    \/ TimerFire(r)
    \/ ReadDone(r)
    \/ ReadError(r)
    \/ ReadEmpty(r)
    \/ ReadChunk(r)
    \/ Close(r)

\* one request whose response is delivered whole, in chunks, to its end
FeedNext ==
  \E r \in Requests :
    \/ StartStream(r)
    \/ GetUser(r)
    \/ OpenRun(r)
    \/ ReadChunk(r)
    \/ ReadDone(r)

\* requests that pass the checks and whose agent connections do not fail
RaceNext ==
  \E r \in Requests :
    \/ StartStream(r)
    \/ GetUser(r)
    \/ CreateThread(r)
    \/ OpenRun(r)
    \/ ReadDone(r)
    \/ Close(r)

Spec == Init /\ [][Next]_vars
FeedSpec == FeedInit /\ [][FeedNext]_vars
StallSpec == StallInit /\ [][Next]_vars
RaceSpec == RaceInit /\ [][RaceNext]_vars
SelectSpec == SelectInit /\ [][Next]_vars
SinkSpec == SinkInit /\ [][Next]_vars

\* ------------------------------------------------------------------ claims
\* the request reached the stream handler
Streamed(r) == pc[r] \notin {"idle", "responded", "rejected"}
Terminal(e) == e.kind \in {"done", "errors"}
Count(s, Test(_)) == Len(SelectSeq(s, Test))

\* the texts of the content fragments written so far
IsContent(e) == e.kind = "text" /\ e.arg \notin {Greeting, KeepAlive, Fallback}
ContentTexts(r) ==
  LET es == SelectSeq(Sink(r), IsContent) IN [i \in 1..Len(es) |-> es[i].arg]

\* C1: every request handled by the stream handler gets exactly one terminal
\* event, Done or Errors, never both; it is the last event written and
\* nothing is written after it.
C1_OneTerminalLast ==
  \A r \in Requests :
    Streamed(r) =>
      LET s == Sink(r)
          n == Count(s, Terminal)
      IN /\ n <= 1
         /\ n = 1 => Terminal(s[Len(s)]) /\ pc[r] = "returned"
         /\ pc[r] = "returned" => n = 1

C1_Witness ==
  \E r \in Requests :
    /\ pc[r] = "returned"
    /\ Sink(r)[Len(Sink(r))].kind = "done"
    /\ ContentTexts(r) # <<>>

C1_WitnessErrors ==
  \E r \in Requests :
    /\ pc[r] = "returned"
    /\ Sink(r)[Len(Sink(r))].kind = "errors"

\* C2: chunk-boundary invariance.  Once the whole body has been read, the
\* content fragments written are those the buffer/split/parse step yields
\* for the body fed as a single chunk, whatever the chunks were.
C2_ChunkInvariance ==
  \A r \in Requests :
    (pc[r] \in {"reading", "returned"} /\ upstream[r] = <<>>) =>
      ContentTexts(r) = ProcessChunk(rev, <<>>, body[r]).out

\* C3: exactly one Ack is written, it is the first entry of the request's
\* log, so it precedes the identity lookup, the thread-creation call and the
\* run-open call.
C3_AckFirst ==
  \A r \in Requests :
    Streamed(r) =>
      /\ log[r] # <<>>
      /\ log[r][1] = AckEvent
      /\ Count(log[r], LAMBDA e : e.kind = "ack") = 1

C3_Witness ==
  \E r \in Requests :
    /\ Len(Calls(r)) = 3
    /\ Calls(r)[2].kind = "POST /threads"

\* Ack, Text*, Done or Ack, Errors
SinkShape(s) ==
  /\ Len(s) >= 2
  /\ s[1] = AckEvent
  /\ \/ Len(s) = 2 /\ s[2].kind = "errors"
     \/ /\ s[Len(s)] = DoneEvent
        /\ \A i \in 2..(Len(s) - 1) : s[i].kind = "text"

\* C4: the complete sink sequence of a request served by the stream handler
\* is Ack, Text*, Done or Ack, Errors: no Text precedes an Errors event and
\* no request ends without Ack.
C4_AckTextDoneOrAckErrors ==
  \A r \in Requests : pc[r] = "returned" => SinkShape(Sink(r))

\* C5: a message entry with a non-empty tool_calls list produces no Text
\* event: the content "Calling", carried only by the entry with a tool call,
\* is never written.
C5_ToolCallSuppressed ==
  \A r \in Requests :
    \A i \in 1..Len(Sink(r)) : Sink(r)[i].arg # "Calling"

\* the text read so far, and its complete lines
Consumed(r) == SubSeq(body[r], 1, Len(body[r]) - Len(upstream[r]))
CompleteLines(text) == Front(SplitLines(text))
HasToolEntry(line) == \E i \in 1..Len(line) : line[i] = AiTool

C5_Witness ==
  \E r \in Requests :
    /\ pc[r] = "reading"
    /\ \E i \in 1..Len(CompleteLines(Consumed(r))) :
         HasToolEntry(CompleteLines(Consumed(r))[i])
    /\ \E i \in 1..Len(Sink(r)) : Sink(r)[i].arg = "World"

\* a valid line: "data: " followed by a well-formed JSON object, possibly
\* surrounded by blanks
ValidLine(line) ==
  LET l == Trim(line) IN
  /\ Len(l) >= 2 /\ l[1] = DATA /\ l[2] \in {LB, OBJC}
  /\ JSONParse(Tail(l)).ok

ValidLineFragments(lines) ==
  Flatten([i \in 1..Len(lines) |->
             IF ValidLine(lines[i])
               THEN RecordFragments(rev, JSONParse(Tail(Trim(lines[i]))))
               ELSE <<>>])

\* C6: malformed-line tolerance.  The content fragments written are exactly
\* those of the valid lines among the complete lines read, in order, and no
\* line ends the read loop with an error.
C6_MalformedLineTolerance ==
  \A r \in Requests :
    pc[r] \in {"reading", "returned"} =>
      /\ ContentTexts(r) = ValidLineFragments(CompleteLines(Consumed(r)))
      /\ ended[r] # "error"

IsFallback(e) == e.kind = "text" /\ e.arg = Fallback

\* C7: when the stream completes normally, exactly one fallback Text precedes
\* Done if no content fragment was written, and none is written otherwise.
C7_FallbackGuarantee ==
  \A r \in Requests :
    (pc[r] = "returned" /\ ended[r] = "eof") =>
      LET s == Sink(r) IN
      IF ContentTexts(r) = <<>>
        THEN /\ Count(s, IsFallback) = 1
             /\ Len(s) >= 2
             /\ s[Len(s)] = DoneEvent
             /\ IsFallback(s[Len(s) - 1])
        ELSE Count(s, IsFallback) = 0

IsCreated(o) == o = "created"

\* C8: session reuse under sequential requests.  For each identity at most
\* one creation call succeeds and no creation call follows it; every run of
\* the identity is opened against the one stored handle.
C8_SessionReuse ==
  \A l \in Logins :
    /\ Count(creations[l], IsCreated) <= 1
    /\ Count(creations[l], IsCreated) = 1 => creations[l][Len(creations[l])] = "created"
    /\ runs[l] # <<>> => Count(creations[l], IsCreated) = 1
    /\ \A i \in 1..Len(runs[l]) : runs[l][i] = userThreads[l]

C8_Witness ==
  /\ Len(runs["alice"]) = 2
  /\ Len(creations["alice"]) = 1
  /\ \A r \in Requests : ~InFlight(r)

C8_WitnessTwoIdentities ==
  /\ Len(runs["alice"]) = 1 /\ Len(runs["bob"]) = 1
  /\ Len(creations["alice"]) = 1 /\ Len(creations["bob"]) = 1

\* every stored handle is a non-empty value of a successful response
StoredHandlesValid ==
  \A l \in Logins : userThreads[l] # Undefined => userThreads[l] \in issued \ {""}

CreationFailed(r) ==
  /\ pc[r] = "creating"
  /\ pc'[r] = "returned"

\* C9: a failed thread creation ends the request with an Errors event and
\* leaves userThreads as it was; every stored handle is a non-empty value
\* that a successful creation response returned.
C9_FailedCreationLeavesMap ==
  /\ []StoredHandlesValid
  /\ [][\A r \in Requests :
          CreationFailed(r) =>
            /\ userThreads' = userThreads
            /\ Sink(r)' = Append(Sink(r), Sink(r)'[Len(Sink(r)')])
            /\ Sink(r)'[Len(Sink(r)')].kind = "errors"]_vars

C9_Witness ==
  \E r \in Requests :
    /\ pc[r] = "returned"
    /\ userLogin[r] # Undefined
    /\ creations[userLogin[r]] # <<>>
    /\ creations[userLogin[r]][Len(creations[userLogin[r]])] = "failed"
    /\ userThreads[userLogin[r]] = Undefined

\* C10: a reader that was acquired is released when the handler returns.
C10_ReaderReleased ==
  \A r \in Requests : pc[r] = "returned" => reader[r] # "held"

\* C11 as stated: under any interleaving of requests an entry of userThreads
\* is inserted at most once per identity and, once stored, never changes.
C11_HandleImmutable ==
  [][\A l \in Logins :
       /\ userThreads[l] # Undefined => userThreads'[l] = userThreads[l]
       /\ Count(creations'[l], IsCreated) <= 1]_vars

\* C11 as amended: userThreads holds one handle per identity, and an entry is
\* written only by a request of that identity whose lookup found no entry
\* and whose creation call has just returned a handle; so no step changes an
\* entry while no such request is in flight.
C11_WrittenOnlyAfterEmptyLookup ==
  [][\A l \in Logins :
       userThreads'[l] # userThreads[l] =>
         \E r \in Requests :
           /\ pc[r] = "creating" /\ userLogin[r] = l
           /\ threadId[r] = Undefined
           /\ ~Falsy(threadId'[r])
           /\ userThreads'[l] = threadId'[r]]_vars

C11_Witness ==
  /\ Count(creations["alice"], IsCreated) = 2
  /\ Len(runs["alice"]) = 2
  /\ runs["alice"][1] # runs["alice"][2]
  /\ userThreads["alice"] = runs["alice"][2]

\* a request of identity l has found no entry and not yet passed resolution
Resolving(l) == \E r \in Requests : pc[r] = "creating" /\ userLogin[r] = l
IsCreateCall(e) == e.kind = "POST /threads"

\* C12: convergence after the first-request race.  Each racing request that
\* creates a handle stores it, the later set replacing the earlier; once no
\* request of the identity is between lookup and set and an entry is stored,
\* the entry no longer changes, no request of the identity makes a creation
\* call and every run of the identity is opened against the stored handle.
C12_RaceConverges ==
  [][\A l \in Logins :
       /\ \A r \in Requests :
            (pc[r] = "creating" /\ pc'[r] = "opening" /\ userLogin[r] = l) =>
              /\ userThreads'[l] = threadId'[r]
              /\ runs'[l] = Append(runs[l], threadId'[r])
       /\ (~Resolving(l) /\ userThreads[l] # Undefined) =>
            /\ userThreads'[l] = userThreads[l]
            /\ creations'[l] = creations[l]
            /\ \A r \in Requests :
                 userLogin'[r] = l =>
                   Count(Calls(r)', IsCreateCall) <= Count(Calls(r), IsCreateCall)
            /\ \A i \in (Len(runs[l]) + 1)..Len(runs'[l]) :
                 runs'[l][i] = userThreads[l]]_vars

C12_Witness ==
  /\ Count(creations["alice"], IsCreated) = 2
  /\ Len(runs["alice"]) = 3
  /\ runs["alice"][1] # runs["alice"][2]
  /\ runs["alice"][3] = runs["alice"][2]
  /\ userThreads["alice"] = runs["alice"][2]

\* the content texts written for message entries ("Direct" is the top-level
\* content of a record, not a message entry)
IsMessageText(t) == t # "Direct"
MessageTexts(r) == SelectSeq(ContentTexts(r), IsMessageText)

\* a is a subsequence of b
RECURSIVE IsSubseq(_, _)
IsSubseq(a, b) ==
  IF a = <<>> THEN TRUE
  ELSE IF b = <<>> THEN FALSE
  ELSE IF Head(a) = Head(b) THEN IsSubseq(Tail(a), Tail(b))
  ELSE IsSubseq(a, Tail(b))

\* an entry of type "ai" with non-empty string content and no tool calls
Admitted(e) ==
  /\ e.type = "ai"
  /\ e.content \notin {"", ListContent}
  /\ e.tool_calls \in {<<>>, <<Undefined>>}

RECURSIVE AdmittedOf(_)
AdmittedOf(msgs) ==
  IF msgs = <<>> THEN <<>>
  ELSE (IF Admitted(Head(msgs)) THEN <<Head(msgs).content>> ELSE <<>>)
       \o AdmittedOf(Tail(msgs))

\* the contents of the admitted entries of the lines that start with
\* "data: " and carry a JSON object, in line order and entry order
AdmittedContents(lines) ==
  Flatten([i \in 1..Len(lines) |->
             IF ValidLine(lines[i])
               THEN AdmittedOf(JSONParse(Tail(Trim(lines[i]))).messages)
               ELSE <<>>])

\* the lines of the spec's example: an ai "Hello" record, an ai record with
\* empty content, "data: ping"
ExampleLines ==
  { <<DATA, LB, AiHello, RB>>, <<DATA, LB, AiEmpty, RB>>, <<DATA, PING>> }
ExampleBody(text) ==
  /\ Last(SplitLines(text)) = <<>>
  /\ \A i \in 1..Len(CompleteLines(text)) : CompleteLines(text)[i] \in ExampleLines

\* C13: extraction filter.  Every Text written for a message entry is the
\* content of an entry of type "ai" with non-empty string content and no
\* tool calls, on a complete line that starts with "data: " and carries a
\* JSON object, in order; a body made of the example's lines yields exactly
\* one "Hello" per Hello record and nothing else.
C13_ExtractionFilter ==
  \A r \in Requests :
    pc[r] \in {"reading", "returned"} =>
      /\ IsSubseq(MessageTexts(r), AdmittedContents(CompleteLines(Consumed(r))))
      /\ ExampleBody(body[r]) =>
           MessageTexts(r) = AdmittedContents(CompleteLines(Consumed(r)))

C13_Example ==
  \E r \in Requests :
    /\ pc[r] = "returned"
    /\ body[r] = <<DATA, LB, AiHello, RB, NL, DATA, LB, AiEmpty, RB, NL>>
    /\ ContentTexts(r) = <<"Hello">>

IsErrors(e) == e.kind = "errors"

\* C14: when a read reports done, the read loop is left normally and the
\* request ends with Done and without an Errors event, whether or not any
\* data was received before.
C14_EofEndsWithDone ==
  \A r \in Requests :
    (pc[r] = "returned" /\ ended[r] = "eof") =>
      /\ Sink(r)[Len(Sink(r))] = DoneEvent
      /\ Count(Sink(r), IsErrors) = 0

\* C15: stall termination.  Once the upstream has delivered maxEmptyReads
\* consecutive empty reads the read loop has stopped, also when keep-alive
\* notices were written in between; a request stopped for a stall ends with
\* Done, preceded by the fallback Text exactly when no content fragment was
\* written, and never with Errors.
C15_StallTerminates ==
  \A r \in Requests :
    /\ pc[r] = "reading" => emptyRun[r] < maxEmptyReads
    /\ (pc[r] = "returned" /\ ended[r] = "stall") =>
         /\ Sink(r)[Len(Sink(r))] = DoneEvent
         /\ Count(Sink(r), IsErrors) = 0
         /\ Count(Sink(r), IsFallback) = (IF ContentTexts(r) = <<>> THEN 1 ELSE 0)

\* C16: a read error ends the read loop as a normal end: the request ends
\* with Done, preceded by the fallback Text exactly when no content fragment
\* was written, and no Errors event is written.
C16_ReadErrorEndsWithDone ==
  \A r \in Requests :
    (pc[r] = "returned" /\ ended[r] = "error") =>
      /\ Sink(r)[Len(Sink(r))] = DoneEvent
      /\ Count(Sink(r), IsErrors) = 0
      /\ Count(Sink(r), IsFallback) = (IF ContentTexts(r) = <<>> THEN 1 ELSE 0)

\* the handler returned from the run-open call without entering the read loop
RunOpenFailed(r) ==
  /\ pc[r] = "returned" /\ ended[r] = "no"
  /\ Calls(r) # <<>>
  /\ Calls(r)[Len(Calls(r))].kind = "POST /threads/{id}/runs/stream"

\* C17: run-open failure.  When the run-open call fails (non-success
\* response, no body, or abort by the timeout while the call is in flight)
\* the sink holds Ack and one Errors event, no Done and no Text, and no
\* reader was acquired; once the call has returned the timer is no longer
\* armed, so it cannot abort the request while it is reading.
C17_RunOpenFailure ==
  \A r \in Requests :
    /\ RunOpenFailed(r) =>
         /\ Len(Sink(r)) = 2
         /\ Sink(r)[1] = AckEvent
         /\ Sink(r)[2].kind = "errors"
         /\ reader[r] = "null"
    /\ pc[r] = "reading" => timer[r] \in {"none", "cleared"}

C17_Witness ==
  \E r \in Requests :
    /\ RunOpenFailed(r)
    /\ timer[r] = "fired"
    /\ Sink(r)[2].arg = "This operation was aborted"

\* C18: when the write of the Errors event fails while a failure is being
\* reported, no exception leaves the handler, and the handler returns with
\* any reader it held released.
C18_WriteFailureSwallowed ==
  \A r \in Requests :
    /\ pc[r] # "escaped"
    /\ (pc[r] = "returned" /\ Count(Sink(r), Terminal) = 0) => reader[r] # "held"

\* the contents a line carries, entry by entry, then its top-level content
RECURSIVE ContentsOf(_)
ContentsOf(msgs) ==
  IF msgs = <<>> THEN <<>> ELSE <<Head(msgs).content>> \o ContentsOf(Tail(msgs))

LineContents(lines) ==
  Flatten([i \in 1..Len(lines) |->
             IF ValidLine(lines[i])
               THEN LET eventObj == JSONParse(Tail(Trim(lines[i]))) IN
                    ContentsOf(eventObj.messages)
                    \o (IF eventObj.content # Undefined THEN <<eventObj.content>> ELSE <<>>)
               ELSE <<>>])

\* the lines that reading the next k tokens of the body completes
NewLines(r, k) ==
  LET lines == CompleteLines(Consumed(r))
      linesAfter == CompleteLines(SubSeq(body[r], 1, Len(Consumed(r)) + k))
  IN SubSeq(linesAfter, Len(lines) + 1, Len(linesAfter))

\* after extends the content texts written so far by contents of the lines
\* the next k tokens complete, in line order and then entry order
WrittenInOrder(r, k, after) ==
  LET before == ContentTexts(r) IN
  /\ Len(after) >= Len(before)
  /\ SubSeq(after, 1, Len(before)) = before
  /\ IsSubseq(SubSeq(after, Len(before) + 1, Len(after)), LineContents(NewLines(r, k)))

\* C19: order and no batching.  In every step of a request that is reading,
\* the content Text events written are appended after those written before
\* and are, in line order and then entry order, contents of the lines that
\* the chunk read in this step completed; a step that reads no chunk writes
\* no content Text.  So every fragment of a chunk is in the sink before the
\* next read is issued.
C19_OrderNoBatching ==
  [][\A r \in Requests :
       pc[r] = "reading" =>
         \E k \in 0..Len(upstream[r]) :
           /\ Len(upstream'[r]) = Len(upstream[r]) - k
           /\ WrittenInOrder(r, k, ContentTexts(r)')]_vars

C19_Witness ==
  \E r \in Requests :
    /\ pc[r] = "reading"
    /\ upstream[r] # <<>>
    /\ ContentTexts(r) = <<"Hello", "World">>

\* a field is present when it carries a non-empty value
Present(v) == v \notin {Undefined, ""}
IsRunCall(e) == e.kind = "POST /threads/{id}/runs/stream"

\* C20: handle selection.  After a creation response was decoded the handle
\* is the first present of thread_id, id, uuid: it is the request's thread id,
\* it is stored for the identity and the run is opened against it; when no
\* field is present nothing is stored, no run is opened and the request has
\* ended with Ack and one Errors event.
C20_HandleSelection ==
  \A r \in Requests :
    threadData[r] # <<>> =>
      LET d == threadData[r][1]
          first == CASE Present(d.thread_id) -> d.thread_id
                     [] Present(d.id) -> d.id
                     [] OTHER -> d.uuid
      IN IF Present(d.thread_id) \/ Present(d.id) \/ Present(d.uuid)
           THEN /\ threadId[r] = first
                /\ userThreads[userLogin[r]] = first
                /\ Count(Calls(r), IsRunCall) = 1
                /\ Calls(r)[Len(Calls(r))].arg = first
           ELSE /\ pc[r] = "returned"
                /\ userThreads[userLogin[r]] = Undefined
                /\ Count(Calls(r), IsRunCall) = 0
                /\ Sink(r) = <<AckEvent,
                               ErrorsEvent("Thread creation response missing thread_id",
                                           "PROCESSING_ERROR")>>

C20_Witness ==
  \E r \in Requests :
    /\ threadData[r] = <<[thread_id |-> "", id |-> "t2", uuid |-> "t1"]>>
    /\ userThreads["alice"] = "t2"
    /\ pc[r] = "reading"

\* C21: an incomplete line is never parsed prematurely.  After every chunk
\* the buffer holds exactly the text received since the last newline, so it
\* contains no newline; the content texts written come, in order and each
\* line at most once, from the lines whose newline has been received.
C21_IncompleteLineNotParsed ==
  \A r \in Requests :
    pc[r] \in {"reading", "returned"} =>
      /\ buffer[r] = Last(SplitLines(Consumed(r)))
      /\ \A i \in 1..Len(buffer[r]) : buffer[r][i] # NL
      /\ IsSubseq(ContentTexts(r), LineContents(CompleteLines(Consumed(r))))

C21_Witness ==
  \E r \in Requests :
    /\ pc[r] = "reading"
    /\ buffer[r] = <<DATA, LB, AiWorld, RB>>
    /\ ContentTexts(r) = <<"Hello">>


\* C22: text left in the buffer when the stream ends, a final record without
\* its newline, is discarded unparsed: its content is never written as a
\* Text event, and when no other content was written the fallback Text is
\* written in its place before Done.
C22_TailDiscarded ==
  \A r \in Requests :
    (pc[r] = "returned" /\ ended[r] = "eof" /\ buffer[r] # <<>>) =>
      /\ IsSubseq(ContentTexts(r), LineContents(CompleteLines(body[r])))
      /\ (ContentTexts(r) = <<>>) =>
           /\ Count(Sink(r), IsFallback) = 1
           /\ Last(Sink(r)) = DoneEvent


IsGreeting(e) == e.kind = "text" /\ e.arg = Greeting
Opened(r) == pc[r] = "reading" \/ (pc[r] = "returned" /\ ended[r] # "no")

\* C23: the greeting Text is written exactly once per request, after the
\* run-open call succeeded and before the first read, so it follows Ack
\* directly and precedes every content fragment; a request that has not
\* opened its run, or failed in session resolution or run open, holds no
\* greeting; the greeting is not content, so a request whose stream ends
\* without a fragment still writes the fallback Text.
C23_GreetingOnce ==
  \A r \in Requests :
    /\ Opened(r) =>
         /\ Count(Sink(r), IsGreeting) = 1
         /\ Sink(r)[2] = TextEvent(Greeting)
         /\ Count(Calls(r), IsRunCall) = 1
    /\ ~Opened(r) => Count(Sink(r), IsGreeting) = 0
    /\ (pc[r] = "returned" /\ ended[r] = "eof" /\ ContentTexts(r) = <<>>) =>
         Count(Sink(r), IsFallback) = 1

====
